---------------------------- MODULE Spec2Model ----------------------------
(***************************************************************************)
(* Passport MRZ extractor (React component App): the extraction run        *)
(* extractData with its Tesseract worker, the UI state that triggers it,   *)
(* and the pure MRZ functions extractMRZ / cleanMRZLine1 / parseMRZ.       *)
(*                                                                         *)
(* A JavaScript string is modelled as a sequence of one-character strings, *)
(* null as the empty sequence where the value is an array or an object.    *)
(***************************************************************************)
EXTENDS Naturals, Integers, Sequences, FiniteSets, TLC

VARIABLES
    selectedFile,   \* useState<File | null>: <<>> or <<file>>
    previewUrl,     \* useState<string | null>: <<>> or <<data URL>>
    isProcessing,   \* useState(false)
    progressMsg,    \* useState(''): <<>> is the empty message
    passportData,   \* useState<PassportData | null>: <<>> or <<record>>
    error,          \* useState<string | null>: <<>> or <<message>>
    readers,        \* per file, the FileReaders whose readAsDataURL has not yet ended
    runs,           \* the invocations of extractData, each with its locals
    transcript,     \* input of the locator harness: an OCR transcript
    located,        \* output of the locator harness
    locPc,          \* position of the locator harness
    arg,            \* argument of the pure function a harness calls
    result,         \* what the calls of that function returned, in order
    callPc          \* position of that harness

uiVars == <<selectedFile, previewUrl, isProcessing, progressMsg, passportData, error, readers>>
locVars == <<transcript, located, locPc, arg, result, callPc>>
vars == <<selectedFile, previewUrl, isProcessing, progressMsg, passportData, error,
          readers, runs, transcript, located, locPc, arg, result, callPc>>

(***************************************************************************)
(* Bounds of the model.                                                    *)
(***************************************************************************)
\* pages a PDF may rasterize to (0..MaxPages)
MaxPages == 3
\* invocations of extractData whose locals the model can hold at once
MaxRuns == 2
\* FileReaders that may be reading at once
MaxReaders == 2
\* lines of a transcript handed to the locator harness
MaxLines == 3

(***************************************************************************)
(* Characters and JavaScript string primitives.                            *)
(***************************************************************************)
Digits == {"0", "1", "2", "3", "4", "5", "6", "7", "8", "9"}
UpperSeq == <<"A", "B", "C", "D", "E", "F", "G", "H", "I", "J", "K", "L", "M",
              "N", "O", "P", "Q", "R", "S", "T", "U", "V", "W", "X", "Y", "Z">>
LowerSeq == <<"a", "b", "c", "d", "e", "f", "g", "h", "i", "j", "k", "l", "m",
              "n", "o", "p", "q", "r", "s", "t", "u", "v", "w", "x", "y", "z">>
Upper == {UpperSeq[k] : k \in 1..26}
Lower == {LowerSeq[k] : k \in 1..26}
\* the characters \s matches that can occur inside a line
Whitespace == {" ", "\t", "\r"}
\* [A-Z0-9<], the MRZ alphabet and the Tesseract whitelist
MrzAlphabet == Upper \cup Digits \cup {"<"}

Min(a, b) == IF a < b THEN a ELSE b
Max(a, b) == IF a > b THEN a ELSE b

\* n copies of character c
Rep(c, n) == [k \in 1..n |-> c]

\* String.prototype.substring(a, b) for 0 <= a, 0 <= b (0-based, end exclusive)
substring(s, a, b) == SubSeq(s, Min(Min(a, b), Len(s)) + 1, Min(Max(a, b), Len(s)))

\* String.prototype.substring(a)
substringFrom(s, a) == SubSeq(s, Min(a, Len(s)) + 1, Len(s))

\* String.prototype.padEnd(n, c)
padEnd(s, n, c) == IF Len(s) >= n THEN s ELSE s \o Rep(c, n - Len(s))

\* String.prototype.toUpperCase on the characters of the model
UpperOf(c) == IF c \in Lower THEN UpperSeq[CHOOSE k \in 1..26 : LowerSeq[k] = c] ELSE c
toUpperCase(s) == [k \in 1..Len(s) |-> UpperOf(s[k])]

\* s.replace(/c/g, r) for a one-character pattern c and a replacement string r
RECURSIVE replaceAllChar(_, _, _)
replaceAllChar(s, c, r) ==
    IF s = <<>> THEN <<>>
    ELSE (IF Head(s) = c THEN r ELSE <<Head(s)>>) \o replaceAllChar(Tail(s), c, r)

\* s.replace(/\s/g, '')
stripWhitespace(s) == SelectSeq(s, LAMBDA c : c \notin Whitespace)

\* String.prototype.split('\n'): always at least one (possibly empty) piece
RECURSIVE split(_, _)
split(s, sep) ==
    IF \A k \in 1..Len(s) : s[k] # sep THEN <<s>>
    ELSE LET k == CHOOSE j \in 1..Len(s) : s[j] = sep /\ \A h \in 1..(j - 1) : s[h] # sep
         IN  <<SubSeq(s, 1, k - 1)>> \o split(SubSeq(s, k + 1, Len(s)), sep)

\* Array.prototype.join('')
RECURSIVE join(_)
join(ls) == IF ls = <<>> THEN <<>> ELSE Head(ls) \o join(Tail(ls))

\* (s.match(/[0-9]/g) || []).length
countDigits(s) == Cardinality({k \in 1..Len(s) : s[k] \in Digits})

startsWith(s, c) == Len(s) >= 1 /\ s[1] = c

(***************************************************************************)
(* MRZLocator: extractMRZ.                                                 *)
(***************************************************************************)
\* the length of an MRZ line (TD3) and the shortest line Pass A accepts
MrzLen == 44
MinLineLen == 40
\* line 2 needs more than this many digits
MinDigits == 5

\* the per-line normalisation of extractMRZ
normalizeLine(l) ==
    LET u  == toUpperCase(l)
        w  == stripWhitespace(u)
        g  == replaceAllChar(w, "«", <<"<", "<">>)
        b1 == replaceAllChar(g, "[", <<"<">>)
        b2 == replaceAllChar(b1, "]", <<"<">>)
        p1 == replaceAllChar(b2, "(", <<"<">>)
    IN  replaceAllChar(p1, ")", <<"<">>)

normalizedLines(text) ==
    LET raw == split(text, "\n") IN [k \in 1..Len(raw) |-> normalizeLine(raw[k])]

\* l1.padEnd(44, '<').substring(0, 44)
fit44(l) == substring(padEnd(l, MrzLen, "<"), 0, MrzLen)

\* the condition under which the line-pair scan returns the pair at index i (1-based)
\* a test without the digit count of line 2
pairQualifiesAnyDigits(lines, i) ==
    /\ startsWith(lines[i], "P")
    /\ Len(lines[i]) >= MinLineLen
    /\ Len(lines[i + 1]) >= MinLineLen

pairQualifies(lines, i) ==
    /\ startsWith(lines[i], "P")
    /\ Len(lines[i]) >= MinLineLen
    /\ Len(lines[i + 1]) >= MinLineLen
    /\ countDigits(fit44(lines[i + 1])) > MinDigits

\* (variant: a scan that keeps the last qualifying pair instead of returning at the first)
scanPickLast(qualifying) == CHOOSE i \in qualifying : \A j \in qualifying : i >= j

\* the index the for-loop of Pass A returns at, given the indices that qualify
scanPick(qualifying) == CHOOSE i \in qualifying : \A j \in qualifying : i <= j

\* Pass A: the first adjacent pair, top to bottom, that qualifies; <<>> if none
passA(lines) ==
    LET q == {i \in 1..(Len(lines) - 1) : pairQualifies(lines, i)}
    IN  IF q = {} THEN <<>>
        ELSE LET i == scanPick(q) IN <<fit44(lines[i]), fit44(lines[i + 1])>>

\* whether /(P[A-Z<][A-Z0-9<]{42})([A-Z0-9<]{44})/ matches s at 1-based offset k
matchesAt(s, k) ==
    /\ k + 2 * MrzLen - 1 <= Len(s)
    /\ s[k] = "P"
    /\ s[k + 1] \in Upper \cup {"<"}
    /\ \A j \in (k + 2)..(k + 2 * MrzLen - 1) : s[j] \in MrzAlphabet

\* Pass B: the leftmost match of the pattern in the concatenated lines
passB(lines) ==
    LET continuous == join(lines)
        m == {k \in 1..Len(continuous) : matchesAt(continuous, k)}
    IN  IF m = {} THEN <<>>
        ELSE LET k == CHOOSE j \in m : \A h \in m : j <= h
             IN  <<SubSeq(continuous, k, k + MrzLen - 1),
                   SubSeq(continuous, k + MrzLen, k + 2 * MrzLen - 1)>>

\* extractMRZ(text): <<l1, l2>>, or <<>> for null
extractMRZ(text) ==
    LET lines == normalizedLines(text)
        a == passA(lines)
    IN  IF a # <<>> THEN a ELSE passB(lines)


(***************************************************************************)
(* MRZCorrector: cleanMRZLine1 (the {C,E,L,A} variant).                    *)
(***************************************************************************)
\* the width of the type + issuing-country prefix of line 1
PrefixLen == 5
\* the shortest trailing run of {C,E,L,A} that is rewritten to filler
MinFillerRun == 3
FillerLookalikes == {"C", "E", "L", "A"}

\* a test that never finds a separator
hasLetterSepLetterNever(s) == FALSE

\* /[A-Z]<<[A-Z]/.test(s)
hasLetterSepLetter(s) ==
    \E k \in 1..(Len(s) - 3) :
        s[k] \in Upper /\ s[k + 1] = "<" /\ s[k + 2] = "<" /\ s[k + 3] \in Upper

\* /[A-Z]<<$/.test(s)
endsLetterSep(s) ==
    Len(s) >= 3 /\ s[Len(s) - 2] \in Upper /\ s[Len(s) - 1] = "<" /\ s[Len(s)] = "<"

\* /^<</.test(s)
startsSep(s) == Len(s) >= 2 /\ s[1] = "<" /\ s[2] = "<"

\* a scan that never finds a trailing run
trailingRunNone(s, cs) == 0

\* the length of the longest suffix of s made of characters of set cs
trailingRun(s, cs) ==
    LET ok == {n \in 0..Len(s) : \A k \in (Len(s) - n + 1)..Len(s) : s[k] \in cs}
    IN  CHOOSE n \in ok : \A m \in ok : m <= n

\* a replacement by one filler character whatever the length of the run
restoreTrailingFillerShrunk(s) ==
    LET n == trailingRun(s, FillerLookalikes)
    IN  IF n >= MinFillerRun THEN SubSeq(s, 1, Len(s) - n) \o <<"<">> ELSE s

\* s.replace(/[CELA]{3,}$/, match => '<'.repeat(match.length))
restoreTrailingFiller(s) ==
    LET n == trailingRun(s, FillerLookalikes)
    IN  IF n >= MinFillerRun THEN SubSeq(s, 1, Len(s) - n) \o Rep("<", n) ELSE s

\* s.replace(/([A-Z])CC([A-Z])/, '$1<<$2'): the leftmost match only
restoreSeparator(s) ==
    LET m == {k \in 1..(Len(s) - 3) :
                 s[k] \in Upper /\ s[k + 1] = "C" /\ s[k + 2] = "C" /\ s[k + 3] \in Upper}
    IN  IF m = {} THEN s
        ELSE LET k == CHOOSE j \in m : \A h \in m : j <= h
             IN  [j \in 1..Len(s) |-> IF j = k + 1 \/ j = k + 2 THEN "<" ELSE s[j]]

cleanMRZLine1(line) ==
    IF Len(line) < MrzLen THEN line
    ELSE LET nameSection == substringFrom(line, PrefixLen)
         IN  IF hasLetterSepLetter(nameSection) THEN line
             ELSE IF endsLetterSep(nameSection) \/ startsSep(nameSection) THEN line
             ELSE LET step1 == restoreTrailingFiller(nameSection)
                      step2 == IF ~hasLetterSepLetter(step1)
                               THEN restoreSeparator(step1) ELSE step1
                  IN  substring(line, 0, PrefixLen) \o step2

(***************************************************************************)
(* MRZFieldDecoder: parseMRZ and formatMRZDate.                            *)
(***************************************************************************)
\* s.split('<<'): pieces between non-overlapping separators, left to right
RECURSIVE splitSep(_)
splitSep(s) ==
    LET m == {k \in 1..(Len(s) - 1) : s[k] = "<" /\ s[k + 1] = "<"}
    IN  IF m = {} THEN <<s>>
        ELSE LET k == CHOOSE j \in m : \A h \in m : j <= h
             IN  <<SubSeq(s, 1, k - 1)>> \o splitSep(SubSeq(s, k + 2, Len(s)))

\* String.prototype.trim
RECURSIVE trimStart(_)
trimStart(s) == IF s # <<>> /\ Head(s) \in Whitespace THEN trimStart(Tail(s)) ELSE s
RECURSIVE trimEnd(_)
trimEnd(s) ==
    IF s # <<>> /\ s[Len(s)] \in Whitespace THEN trimEnd(SubSeq(s, 1, Len(s) - 1)) ELSE s
trim(s) == trimEnd(trimStart(s))

\* part.replace(/</g, ' ').trim()
namePart(s) == trim(replaceAllChar(s, "<", <<" ">>))

\* field.replace(/</g, '')
stripFiller(s) == replaceAllChar(s, "<", <<>>)

DigitSeq == <<"0", "1", "2", "3", "4", "5", "6", "7", "8", "9">>
digitValue(c) == (CHOOSE k \in 1..10 : DigitSeq[k] = c) - 1

\* parseInt(s, 10) of a two-character string: <<n>>, or <<>> for NaN
parseInt2(s) ==
    IF Len(s) >= 1 /\ s[1] \in Digits THEN
        IF Len(s) >= 2 /\ s[2] \in Digits
        THEN <<10 * digitValue(s[1]) + digitValue(s[2])>>
        ELSE <<digitValue(s[1])>>
    ELSE IF Len(s) >= 2 /\ s[1] = "+" /\ s[2] \in Digits THEN <<digitValue(s[2])>>
    ELSE IF Len(s) >= 2 /\ s[1] = "-" /\ s[2] \in Digits THEN <<0 - digitValue(s[2])>>
    ELSE <<>>

\* the decimal digits of a natural number
RECURSIVE natToString(_)
natToString(n) ==
    IF n < 10 THEN <<DigitSeq[n + 1]>>
    ELSE natToString(n \div 10) \o <<DigitSeq[(n % 10) + 1]>>

\* the two-digit-year pivot: years above (current year mod 100) + PivotSpan are 19xx
PivotSpan == 10
\* a pivot that never picks the 1900s
fullYearOfAlways2000(year, nowYear) == 2000 + year
\* a pivot off by one: cy + PivotSpan itself goes to the 1900s
fullYearOfInclusive(year, nowYear) ==
    IF year >= (nowYear % 100) + PivotSpan THEN 1900 + year ELSE 2000 + year
fullYearOf(year, nowYear) ==
    IF year > (nowYear % 100) + PivotSpan THEN 1900 + year ELSE 2000 + year

\* formatMRZDate(yymmdd) when new Date().getFullYear() is nowYear
formatMRZDate(yymmdd, nowYear) ==
    IF Len(yymmdd) # 6 \/ \E k \in 1..Len(yymmdd) : yymmdd[k] = "<" THEN <<>>
    ELSE LET clean == replaceAllChar(replaceAllChar(replaceAllChar(replaceAllChar(
                          yymmdd, "O", <<"0">>), "I", <<"1">>), "S", <<"5">>), "Z", <<"2">>)
             year  == parseInt2(substring(clean, 0, 2))
             month == substring(clean, 2, 4)
             day   == substring(clean, 4, 6)
         IN  IF year = <<>> THEN clean
             ELSE natToString(fullYearOf(year[1], nowYear)) \o <<"-">> \o month \o <<"-">> \o day

\* a mapping with a fourth outcome for the filler character
sexOfUnknown(sexRaw) ==
    IF sexRaw = <<"M">> THEN "Male" ELSE IF sexRaw = <<"F">> THEN "Female"
    ELSE IF sexRaw = <<"<">> THEN "Unknown" ELSE "Unspecified"

\* sexRaw === 'M' ? 'Male' : sexRaw === 'F' ? 'Female' : 'Unspecified'
sexOf(sexRaw) ==
    IF sexRaw = <<"M">> THEN "Male" ELSE IF sexRaw = <<"F">> THEN "Female" ELSE "Unspecified"

\* [givenNames, surname].filter(Boolean).join(' ')
fullNameOf(givenNames, surname) ==
    IF givenNames = <<>> THEN surname
    ELSE IF surname = <<>> THEN givenNames
    ELSE givenNames \o <<" ">> \o surname

\* parseMRZ(lines) when new Date().getFullYear() is nowYear
parseMRZ(lines, nowYear) ==
    LET line1 == cleanMRZLine1(lines[1])
        line2 == lines[2]
        issuingCountry == stripFiller(substring(line1, 2, 5))
        nameString == splitSep(substringFrom(line1, PrefixLen))
        surname == namePart(nameString[1])
        givenNames == namePart(IF Len(nameString) >= 2 THEN nameString[2] ELSE <<>>)
        nationality == stripFiller(substring(line2, 10, 13))
    IN  [passportNumber |-> stripFiller(substring(line2, 0, 9)),
         fullName       |-> fullNameOf(givenNames, surname),
         surname        |-> surname,
         givenNames     |-> givenNames,
         nationality    |-> IF nationality # <<>> THEN nationality ELSE issuingCountry,
         dateOfBirth    |-> formatMRZDate(substring(line2, 13, 19), nowYear),
         sex            |-> sexOf(substring(line2, 20, 21)),
         dateOfExpiry   |-> formatMRZDate(substring(line2, 21, 27), nowYear),
         mrzLine1       |-> line1,
         mrzLine2       |-> line2]

(***************************************************************************)
(* The OCR engine's transcripts used by the extraction runs.               *)
(***************************************************************************)
\* the ICAO 9303 specimen
SampleLine1 ==
    <<"P", "<", "U", "T", "O", "E", "R", "I", "K", "S", "S", "O", "N", "<", "<", "A", "N", "N", "A", "<", "M", "A",
       "R", "I", "A", "<", "<", "<", "<", "<", "<", "<", "<", "<", "<", "<", "<", "<", "<", "<", "<", "<", "<", "<">>
SampleLine2 ==
    <<"L", "8", "9", "8", "9", "0", "2", "C", "3", "6", "U", "T", "O", "7", "4", "0", "8", "1", "2", "2", "F", "1",
       "2", "0", "4", "1", "5", "9", "Z", "E", "1", "8", "4", "2", "2", "6", "B", "<", "<", "<", "<", "<", "1", "0">>
\* a second document
OtherLine1 == <<"P", "<", "U", "T", "O", "S", "M", "I", "T", "H", "<", "<", "J", "O", "H", "N">> \o Rep("<", 28)
OtherLine2 ==
    <<"X", "1", "2", "3", "4", "5", "6", "7", "8", "4", "U", "T", "O", "8", "0", "0", "1", "0", "1", "4", "M", "3",
       "0", "0", "1", "0", "1", "2">> \o Rep("<", 14) \o <<"0", "6">>
\* a page without an MRZ
JunkText == <<"P", "A", "S", "S", "P", "O", "R", "T", "\n", "U", "T", "O", "P", "I", "A">>
SampleText == SampleLine1 \o <<"\n">> \o SampleLine2
OtherText == <<"U", "T", "O", "\n">> \o OtherLine1 \o <<"\n">> \o OtherLine2
OcrTexts == {SampleText, OtherText, JunkText}
\* what new Date().getFullYear() may return during a run
ClockYears == {2022, 2026}

(***************************************************************************)
(* The files a user can pick, and the messages the component shows.        *)
(***************************************************************************)
ImageFile == "passport.png"
PdfFile == "passport.pdf"
Files == {ImageFile, PdfFile}
fileType(f) == IF f = PdfFile THEN "application/pdf" ELSE "image/png"
\* reader.result of readAsDataURL(f)
dataUrl(f) == <<"data:", fileType(f), f>>

MrzNotFoundMsg == "Could not detect a valid Machine Readable Zone (MRZ). Please ensure the image is clear and the bottom two lines of the passport are visible."
DefaultErrorMsg == "An error occurred while processing the passport."
DropInvalidMsg == "Please drop a valid image or PDF file."
\* err.message of a rejected external call (possibly empty)
ExternalMessages == {"", "external call failed"}
\* m.progress * 100 as reported by the Tesseract logger
Percents == {50}

(***************************************************************************)
(* One invocation of extractData: its locals, and what it has done so far. *)
(***************************************************************************)
RunIds == 1..MaxRuns

IdleRun ==
    [pc          |-> "idle",      \* the await the invocation is suspended at
     file        |-> <<>>,        \* selectedFile as captured by the closure
     url         |-> <<>>,        \* previewUrl as captured by the closure
     imageSrcs   |-> <<>>,
     i           |-> 0,           \* 0-based page index (= currentPage)
     pass        |-> 0,           \* 1, 2, 3 while a page is being tried
     mrzLines    |-> <<>>,
     foundData   |-> <<>>,
     worker      |-> [created |-> 0, whitelist |-> FALSE, terminated |-> 0],
     attempts    |-> <<>>,        \* history: the passes started, <<page, pass>>
     ocrOnPage   |-> 0,           \* history: worker.recognize calls issued on page i
     ocrTotal    |-> 0,           \* history: worker.recognize calls issued in all
     lastOutcome |-> "",          \* history: how the latest pass ended
     foundText   |-> <<>>,        \* history: the transcript the MRZ was located in
     exit        |-> "",          \* history: "record", "notFound" or "failure"
     message     |-> <<>>]        \* history: the error message the run set

active(run) == run.pc \notin {"idle", "done"}

\* the invocations still suspended at an await: the locals of one that has returned
\* are kept (for inspection) only until the next event
frames == [r \in RunIds |-> IF runs[r].pc = "done" THEN IdleRun ELSE runs[r]]

\* extractMRZ and parseMRZ on the transcripts of the engine, evaluated once
mrzOf == [t \in OcrTexts |-> extractMRZ(t)]
recordOf == [l \in {mrzOf[t] : t \in OcrTexts} \ {<<>>}, y \in ClockYears |-> parseMRZ(l, y)]

\* worker.recognize(image) issued in the current pass
issueRecognize(run) ==
    [run EXCEPT !.pc = "recognize", !.ocrOnPage = @ + 1, !.ocrTotal = @ + 1]

\* the first await of pass p on the current page: preprocessing for passes 1 and 2,
\* recognize on the original image for pass 3
enterPass(run, p) ==
    LET r1 == [run EXCEPT !.pass = p, !.attempts = Append(@, <<run.i + 1, p>>)]
    IN  IF p = 3 THEN issueRecognize(r1) ELSE [r1 EXCEPT !.pc = "preprocess"]

\* the head of the page loop at index idx; past the last page, worker.terminate()
loopHead(run, idx) ==
    IF idx < Len(run.imageSrcs)
    THEN enterPass([run EXCEPT !.i = idx, !.mrzLines = <<>>, !.ocrOnPage = 0], 1)
    ELSE [run EXCEPT !.i = idx, !.pc = "terminate"]

\* (variant: the loop without its break, going on with the next page)
foundStepNoBreak(run, nowYear) ==
    loopHead([run EXCEPT !.foundData = <<recordOf[run.mrzLines, nowYear]>>], run.i + 1)

\* if (mrzLines) { foundData = parseMRZ(mrzLines); break; } and then worker.terminate()
foundStep(run, nowYear) ==
    [run EXCEPT !.foundData = <<recordOf[run.mrzLines, nowYear]>>, !.pc = "terminate"]

\* the end of pass 3 without an MRZ: the loop's i++
advancePage(run) == loopHead(run, run.i + 1)

\* (variant: a page loop that goes from any failed pass straight to the original image)
nextPassSkipCropped(p) == 3

\* the pass that follows pass p (1 or 2) of a page when it left mrzLines null
nextPass(p) == p + 1

\* control after pass run.pass has ended with run.mrzLines set or left null
afterPass(run, nowYear) ==
    IF run.mrzLines # <<>> THEN foundStep(run, nowYear)
    ELSE IF run.pass < 3 THEN enterPass(run, nextPass(run.pass))
    ELSE advancePage(run)

\* (variant: a run that never configures the whitelist)
whitelistSkipped(worker) == worker

\* await worker.setParameters({tessedit_char_whitelist: ...}) has resolved
whitelistSet(worker) == [worker EXCEPT !.whitelist = TRUE]

\* await Tesseract.createWorker(...) has resolved
workerCreated(worker) == [worker EXCEPT !.created = @ + 1]

\* await worker.terminate() has resolved
workerTerminated(worker) == [worker EXCEPT !.terminated = @ + 1]

\* (variant: setError(err.message) without the fallback)
shownMessageNoFallback(msg) == msg

\* setError(err.message || 'An error occurred while processing the passport.')
shownMessage(msg) == IF msg = "" THEN DefaultErrorMsg ELSE msg

\* the progress message a step leaves: set when a pass is entered
progressAfter(old, new) ==
    IF new.attempts = old.attempts THEN progressMsg
    ELSE IF new.pass = 1 THEN <<"Enhancing page", new.i + 1>>
    ELSE IF new.pass = 2 THEN <<"Scanning MRZ region of page", new.i + 1>>
    ELSE <<"Scanning page (original)", new.i + 1>>

\* the run's catch and finally blocks after an exception with message msg
Throw(r, run, msg) ==
    /\ runs' = [frames EXCEPT ![r] = [run EXCEPT !.pc = "done", !.exit = "failure",
                                                 !.message = <<shownMessage(msg)>>]]
    /\ error' = <<shownMessage(msg)>>
    /\ isProcessing' = FALSE
    /\ progressMsg' = <<>>
    /\ UNCHANGED <<selectedFile, previewUrl, passportData, readers, locVars>>

\* the run goes on to its next await
Continue(r, old, new) ==
    /\ runs' = [frames EXCEPT ![r] = new]
    /\ progressMsg' = progressAfter(old, new)
    /\ UNCHANGED <<selectedFile, previewUrl, isProcessing, passportData, error, readers, locVars>>

(***************************************************************************)
(* User actions.                                                           *)
(***************************************************************************)
RECURSIVE sumOver(_, _)
sumOver(f, S) == IF S = {} THEN 0 ELSE LET x == CHOOSE y \in S : TRUE IN f[x] + sumOver(f, S \ {x})

\* the FileReaders still reading (readers[f] of them read file f)
pendingReaders == sumOver(readers, Files)

\* processFile(file)
processFile(f) ==
    /\ error' = <<>>
    /\ passportData' = <<>>
    /\ selectedFile' = <<f>>
    /\ readers' = [readers EXCEPT ![f] = @ + 1]
    /\ runs' = frames
    /\ UNCHANGED <<previewUrl, isProcessing, progressMsg, locVars>>

\* the drop zone and its file input are rendered only while there is no preview
dropZoneShown == previewUrl = <<>>

\* handleFileChange: the user picks a file in the file dialog
SelectFile(f) ==
    /\ dropZoneShown
    /\ pendingReaders < MaxReaders
    /\ processFile(f)

\* handleDrop with an image or PDF file
DropFile(f) ==
    /\ dropZoneShown
    /\ pendingReaders < MaxReaders
    /\ fileType(f) \in {"image/png", "application/pdf"}
    /\ processFile(f)

\* handleDrop with a file of another type
DropInvalid ==
    /\ dropZoneShown
    /\ error' = <<DropInvalidMsg>>
    /\ runs' = frames
    /\ UNCHANGED <<selectedFile, previewUrl, isProcessing, progressMsg, passportData,
                   readers, locVars>>

\* reader.onloadend of a FileReader of file f: reader.result is the data URL, or null
\* when the read failed
ReaderDone(f, ok) ==
    /\ readers[f] > 0
    /\ previewUrl' = IF ok THEN <<dataUrl(f)>> ELSE <<>>
    /\ readers' = [readers EXCEPT ![f] = @ - 1]
    /\ runs' = frames
    /\ UNCHANGED <<selectedFile, isProcessing, progressMsg, passportData, error, locVars>>

\* the "Change File" button: rendered with the preview, disabled={isProcessing}
Reset ==
    /\ previewUrl # <<>>
    /\ ~isProcessing
    /\ selectedFile' = <<>>
    /\ previewUrl' = <<>>
    /\ passportData' = <<>>
    /\ error' = <<>>
    /\ progressMsg' = <<>>
    /\ runs' = frames
    /\ UNCHANGED <<isProcessing, readers, locVars>>

\* (variant: a button that stays enabled while a run is in progress)
extractDisabledNoProcessingCheck == previewUrl = <<>> \/ passportData # <<>>

\* disabled={!previewUrl || isProcessing || !!passportData} of the Extract button
extractDisabled == previewUrl = <<>> \/ isProcessing \/ passportData # <<>>

\* the slot that holds the locals of a new invocation
freeSlots == {r \in RunIds : ~active(runs[r])}

\* a click on the Extract button: extractData() up to its first await
ExtractClick ==
    /\ ~extractDisabled
    /\ freeSlots # {}
    /\ UNCHANGED locVars
    /\ IF selectedFile = <<>> \/ previewUrl = <<>>
       THEN runs' = frames /\ UNCHANGED uiVars
       ELSE LET r == CHOOSE x \in freeSlots : \A y \in freeSlots : x <= y
                start == [IdleRun EXCEPT !.file = selectedFile, !.url = previewUrl]
            IN  /\ isProcessing' = TRUE
                /\ error' = <<>>
                /\ IF fileType(selectedFile[1]) = "application/pdf"
                   THEN /\ progressMsg' = <<"Converting PDF to images...">>
                        /\ runs' = [frames EXCEPT ![r] = [start EXCEPT !.pc = "convertPdf"]]
                   ELSE /\ progressMsg' = <<"Initializing OCR engine...">>
                        /\ runs' = [frames EXCEPT ![r] =
                               [start EXCEPT !.pc = "createWorker",
                                             !.imageSrcs = <<previewUrl[1]>>]]
                /\ UNCHANGED <<selectedFile, previewUrl, passportData, readers>>

(***************************************************************************)
(* The awaits of extractData: each action is the code from the completion  *)
(* of one awaited call to the next await (or to the end of the function).  *)
(***************************************************************************)
\* the page images convertPdfToImages returns for n rendered pages
pdfImages(f, n) == [k \in 1..n |-> <<"jpeg", f, k>>]

\* await convertPdfToImages(selectedFile) resolves with n images
ConvertPdfOk(r, n) ==
    /\ runs[r].pc = "convertPdf"
    /\ Continue(r, runs[r], [runs[r] EXCEPT !.pc = "createWorker",
                                            !.imageSrcs = pdfImages(runs[r].file[1], n)])

ConvertPdfFail(r, msg) ==
    /\ runs[r].pc = "convertPdf"
    /\ Throw(r, runs[r], msg)

\* await Tesseract.createWorker('eng', 1, {logger})
CreateWorkerOk(r) ==
    /\ runs[r].pc = "createWorker"
    /\ Continue(r, runs[r], [runs[r] EXCEPT !.pc = "setParameters",
                                            !.worker = workerCreated(@)])

CreateWorkerFail(r, msg) ==
    /\ runs[r].pc = "createWorker"
    /\ Throw(r, runs[r], msg)

\* await worker.setParameters(...), then the page loop up to its first await
SetParametersOk(r) ==
    /\ runs[r].pc = "setParameters"
    /\ Continue(r, runs[r], loopHead([runs[r] EXCEPT !.worker = whitelistSet(@)], 0))

SetParametersFail(r, msg) ==
    /\ runs[r].pc = "setParameters"
    /\ Throw(r, runs[r], msg)

\* await preprocessImageForMRZ(imageSrcs[i], cropBottom) of pass 1 or 2 resolves
PreprocessOk(r) ==
    /\ runs[r].pc = "preprocess"
    /\ Continue(r, runs[r], issueRecognize(runs[r]))

\* img.onerror: the pass's catch swallows the rejection
PreprocessFail(r) ==
    /\ runs[r].pc = "preprocess"
    /\ \E nowYear \in ClockYears :
          Continue(r, runs[r], afterPass([runs[r] EXCEPT !.lastOutcome = "loadError"], nowYear))

\* await worker.recognize(...) resolves with result.data.text = text
RecognizeOk(r, text) ==
    /\ runs[r].pc = "recognize"
    /\ LET mrz == mrzOf[text]
           run == [runs[r] EXCEPT !.mrzLines = mrz,
                                  !.lastOutcome = IF mrz # <<>> THEN "found" ELSE "none",
                                  !.foundText = IF mrz # <<>> THEN text ELSE @]
       IN  \E nowYear \in ClockYears : Continue(r, runs[r], afterPass(run, nowYear))

\* await worker.recognize(...) rejects: swallowed in passes 1 and 2, thrown in pass 3
RecognizeFail(r, msg) ==
    /\ runs[r].pc = "recognize"
    /\ LET run == [runs[r] EXCEPT !.lastOutcome = "ocrError"]
       IN  IF run.pass < 3
           THEN \E nowYear \in ClockYears : Continue(r, runs[r], afterPass(run, nowYear))
           ELSE Throw(r, run, msg)

\* the logger callback of the worker while it recognizes
LoggerProgress(r, pct) ==
    /\ runs[r].pc = "recognize"
    /\ progressMsg' = <<"Scanning page", runs[r].i + 1, Len(runs[r].imageSrcs), pct>>
    /\ runs' = frames
    /\ UNCHANGED <<selectedFile, previewUrl, isProcessing, passportData, error, readers, locVars>>

\* await worker.terminate() resolves; the rest of extractData
TerminateDone(r) ==
    /\ runs[r].pc = "terminate"
    /\ LET run == [runs[r] EXCEPT !.worker = workerTerminated(@)]
       IN  IF run.foundData # <<>>
           THEN /\ runs' = [frames EXCEPT ![r] = [run EXCEPT !.pc = "done", !.exit = "record"]]
                /\ passportData' = run.foundData
                /\ isProcessing' = FALSE
                /\ progressMsg' = <<>>
                /\ UNCHANGED <<selectedFile, previewUrl, error, readers, locVars>>
           ELSE /\ runs' = [frames EXCEPT ![r] = [run EXCEPT !.pc = "done", !.exit = "notFound",
                                                             !.message = <<MrzNotFoundMsg>>]]
                /\ error' = <<MrzNotFoundMsg>>
                /\ isProcessing' = FALSE
                /\ progressMsg' = <<>>
                /\ UNCHANGED <<selectedFile, previewUrl, passportData, readers, locVars>>

(***************************************************************************)
(* The component: user actions interleaved with the completions.           *)
(***************************************************************************)
LocIdle == transcript = <<>> /\ located = <<>> /\ locPc = "off"
CallIdle == arg = <<>> /\ result = <<>> /\ callPc = "off"

Init ==
    /\ selectedFile = <<>>
    /\ previewUrl = <<>>
    /\ isProcessing = FALSE
    /\ progressMsg = <<>>
    /\ passportData = <<>>
    /\ error = <<>>
    /\ readers = [f \in Files |-> 0]
    /\ runs = [r \in RunIds |-> IdleRun]
    /\ LocIdle
    /\ CallIdle

Next ==
    \/ \E f \in Files : SelectFile(f)
    \/ \E f \in Files : DropFile(f)
    \/ DropInvalid
    \/ Reset
    \/ ExtractClick
    \/ \E f \in Files, ok \in BOOLEAN : ReaderDone(f, ok)
    \/ \E r \in RunIds, n \in 0..MaxPages : ConvertPdfOk(r, n)
    \/ \E r \in RunIds, msg \in ExternalMessages : ConvertPdfFail(r, msg)
    \/ \E r \in RunIds : CreateWorkerOk(r)
    \/ \E r \in RunIds, msg \in ExternalMessages : CreateWorkerFail(r, msg)
    \/ \E r \in RunIds : SetParametersOk(r)
    \/ \E r \in RunIds, msg \in ExternalMessages : SetParametersFail(r, msg)
    \/ \E r \in RunIds : PreprocessOk(r)
    \/ \E r \in RunIds : PreprocessFail(r)
    \/ \E r \in RunIds, text \in OcrTexts : RecognizeOk(r, text)
    \/ \E r \in RunIds, msg \in ExternalMessages : RecognizeFail(r, msg)
    \/ \E r \in RunIds, pct \in Percents : LoggerProgress(r, pct)
    \/ \E r \in RunIds : TerminateDone(r)

Spec == Init /\ [][Next]_vars

(***************************************************************************)
(* Locator harness: extractMRZ applied to bounded transcripts.             *)
(***************************************************************************)
\* the raw lines a transcript of the harness is made of
LineKinds ==
    << <<"P", "<">> \o Rep("A", 42),                    \* 44: a 'P' line without digits
       <<"p", " ", "[">> \o Rep("x", 41),               \* normalises to P< X*41 (43 long)
       Rep("7", 6) \o Rep("B", 38),                     \* 44: six digits
       Rep("7", 5) \o Rep("B", 35),                     \* 40: five digits only
       Rep("C", 44) \o Rep("7", 6),                     \* 50: its digits lie beyond column 44
       <<"P">> \o Rep("8", 6) \o Rep("<", 33),          \* 40: a 'P' line with six digits
       <<"P", "-">> \o Rep("9", 6) \o Rep("A", 36),     \* 44: holds a character outside the alphabet
       <<"P">> \o Rep("D", 38),                         \* 39: too short for Pass A
       <<>> >>                                          \* an empty line

\* lines joined by '\n', as the OCR engine returns them in result.data.text
RECURSIVE joinNl(_)
joinNl(ls) ==
    IF Len(ls) = 0 THEN <<>>
    ELSE IF Len(ls) = 1 THEN ls[1]
    ELSE ls[1] \o <<"\n">> \o joinNl(Tail(ls))

KindSeqs == UNION {[1..n -> 1..Len(LineKinds)] : n \in 1..MaxLines}
Transcripts == {joinNl([k \in 1..Len(ks) |-> LineKinds[ks[k]]]) : ks \in KindSeqs}

LocInit ==
    /\ transcript \in Transcripts
    /\ located = <<>>
    /\ locPc = "input"

\* one call extractMRZ(transcript)
Locate ==
    /\ locPc = "input"
    /\ located' = extractMRZ(transcript)
    /\ locPc' = "done"
    /\ UNCHANGED <<transcript, arg, result, callPc>>


LocateInit ==
    /\ selectedFile = <<>>
    /\ previewUrl = <<>>
    /\ isProcessing = FALSE
    /\ progressMsg = <<>>
    /\ passportData = <<>>
    /\ error = <<>>
    /\ readers = [f \in Files |-> 0]
    /\ runs = [r \in RunIds |-> IdleRun]
    /\ LocInit
    /\ CallIdle

LocateNext == Locate /\ UNCHANGED <<uiVars, runs>>

SpecLocate == LocateInit /\ [][LocateNext]_vars

(***************************************************************************)
(* Properties of the extraction run (checked under Spec).                  *)
(***************************************************************************)
\* the passes in the order the page loop tries them: <<1,1>>, <<1,2>>, <<1,3>>, <<2,1>>, ...
canonicalAttempt(k) == <<((k - 1) \div 3) + 1, ((k - 1) % 3) + 1>>
nonFound == {"none", "ocrError", "loadError"}

\* C1: stop on first success. Once a pass has located an MRZ the run is only ever
\* waiting for worker.terminate() or finished: no pass is started and no OCR call
\* is issued after the locating pass (it stays the latest attempt), and the run
\* ends with the record decoded from that pass's transcript, which it shows.
C1_StopOnFirstSuccess ==
    \A r \in RunIds :
        LET run == runs[r] IN
        run.foundText # <<>> =>
            /\ run.pc \in {"terminate", "done"}
            /\ run.lastOutcome = "found"
            /\ run.attempts[Len(run.attempts)] = <<run.i + 1, run.pass>>
            /\ run.ocrOnPage <= run.pass
            /\ \E y \in ClockYears :
                  run.foundData = <<recordOf[mrzOf[run.foundText], y]>>
            /\ run.pc = "done" => run.exit = "record" /\ passportData = run.foundData

\* C1 witness: three pages, the MRZ located on page 2 only, the run finished.
C1_Witness ==
    \E r \in RunIds :
        /\ runs[r].pc = "done"
        /\ Len(runs[r].imageSrcs) = 3
        /\ runs[r].i = 1
        /\ runs[r].foundText # <<>>
        /\ passportData = runs[r].foundData

\* C2: every finished run that created a worker has terminated it exactly once.
C2_EngineReleasedOnce ==
    \A r \in RunIds :
        runs[r].pc = "done" /\ runs[r].worker.created >= 1 => runs[r].worker.terminated = 1

\* C3: a failing pass-3 OCR call is not fatal: the step that completes it leaves
\* the run where a negative pass-3 result leaves it (at the next page, or at
\* worker.terminate() after the last page) and sets no error.
C3_Pass3FailureNonFatal ==
    [][\A r \in RunIds :
          (/\ runs[r].pc = "recognize"
           /\ runs[r].pass = 3
           /\ runs'[r] # runs[r]
           /\ runs'[r].lastOutcome = "ocrError")
          => /\ runs'[r].pc \in {"preprocess", "terminate"}
             /\ runs'[r].i = runs[r].i + 1
             /\ error' = error]_vars

\* C4: the passes of a run are started in the fixed order page by page, pass 1, 2, 3;
\* while a pass is in flight every earlier pass has ended without an MRZ (failed or
\* negative), and after a pass that ended without an MRZ the run is in the next pass
\* (or, past the last page, at worker.terminate()).
C4_PassOrder ==
    \A r \in RunIds :
        LET run == runs[r] IN
        /\ \A k \in 1..Len(run.attempts) : run.attempts[k] = canonicalAttempt(k)
        /\ run.pc \in {"preprocess", "recognize"} =>
              /\ run.mrzLines = <<>>
              /\ run.attempts # <<>>
              /\ run.attempts[Len(run.attempts)] = <<run.i + 1, run.pass>>
              /\ Len(run.attempts) > 1 => run.lastOutcome \in nonFound
        /\ active(run) /\ run.lastOutcome \in nonFound =>
              \/ run.pc \in {"preprocess", "recognize"}
              \/ run.pc = "terminate" /\ run.pass = 3 /\ run.i = Len(run.imageSrcs)

\* C4 witness: page 2 is being tried after a load error, an OCR error and a
\* negative result on page 1.
C4_Witness ==
    \E r \in RunIds :
        /\ runs[r].pc = "recognize"
        /\ runs[r].attempts = <<<<1, 1>>, <<1, 2>>, <<1, 3>>, <<2, 1>>, <<2, 2>>>>
        /\ runs[r].ocrTotal = 3
        /\ runs[r].lastOutcome = "loadError"

\* C5: at most one invocation of extractData is in progress and at most one
\* worker.recognize call is outstanding; while one is in progress isProcessing is
\* true and the Extract button is disabled.
C5_OneOcrAtATime ==
    /\ Cardinality({r \in RunIds : active(runs[r])}) <= 1
    /\ Cardinality({r \in RunIds : runs[r].pc = "recognize"}) <= 1
    /\ \A r \in RunIds : active(runs[r]) => isProcessing /\ extractDisabled

\* C5 witness: a second OCR call of a run is outstanding while the user has
\* meanwhile selected another file and a FileReader is still reading.
C5_Witness ==
    \E r \in RunIds :
        /\ runs[r].pc = "recognize"
        /\ runs[r].ocrTotal >= 2
        /\ selectedFile # runs[r].file
        /\ pendingReaders > 0

\* C6 as claimed: a run that ends without a record shows MrzNotFound and nothing else.
C6_OnlyMrzNotFound ==
    \A r \in RunIds :
        runs[r].pc = "done" /\ runs[r].exit # "record" =>
            runs[r].message = <<MrzNotFoundMsg>> /\ error = <<MrzNotFoundMsg>>

\* C6 as amended: a run that ends without a record shows a non-empty message: the
\* MrzNotFound guidance when all passes of all pages ended without an MRZ, and
\* otherwise the message of the call that failed (PDF conversion, engine creation,
\* whitelist configuration, or the pass-3 OCR call), or the generic message when
\* that message is empty; failures of preprocessing and of OCR in passes 1 and 2
\* are never shown.
C6_ShownFailures ==
    \A r \in RunIds :
        LET run == runs[r] IN
        run.pc = "done" /\ run.exit # "record" =>
            /\ error = run.message
            /\ run.foundData = <<>>
            /\ run.exit = "notFound" =>
                  /\ run.message = <<MrzNotFoundMsg>>
                  /\ Len(run.attempts) = 3 * Len(run.imageSrcs)
            /\ run.exit = "failure" =>
                  /\ run.message \in {<<m>> : m \in (ExternalMessages \ {""}) \cup {DefaultErrorMsg}}
                  /\ \/ run.attempts = <<>>
                     \/ run.pass = 3 /\ run.lastOutcome = "ocrError"

\* C6 witness: a run ended by a failed call whose message is empty shows the
\* generic message.
C6_Witness ==
    \E r \in RunIds :
        /\ runs[r].pc = "done"
        /\ runs[r].exit = "failure"
        /\ runs[r].pass = 3
        /\ error = <<DefaultErrorMsg>>

\* C7: a run whose engine is set up issues at most 3 OCR calls per page and at
\* most 3n in all, and if it ends with no pass having located an MRZ it ends in
\* MrzNotFound without a record.
C7_BoundedAndNotFound ==
    \A r \in RunIds :
        LET run == runs[r] IN
        run.worker.whitelist =>
            /\ run.ocrOnPage <= 3
            /\ run.ocrTotal <= 3 * Len(run.imageSrcs)
            /\ run.pc = "done" /\ run.foundText = <<>> =>
                  /\ run.exit = "notFound"
                  /\ run.message = <<MrzNotFoundMsg>>
                  /\ run.foundData = <<>>

\* C8: every worker.recognize call is issued on the single worker of the run, after
\* its whitelist was set and before it is terminated; a run creates one worker at most.
C8_OneWhitelistedEngine ==
    \A r \in RunIds :
        LET run == runs[r] IN
        /\ run.worker.created <= 1
        /\ run.pc = "recognize" \/ run.ocrTotal > 0 =>
              run.worker.created = 1 /\ run.worker.whitelist
        /\ run.pc = "recognize" => run.worker.terminated = 0

\* C8 witness: the fourth recognize call of a run (on its second page).
C8_Witness ==
    \E r \in RunIds :
        /\ runs[r].pc = "recognize"
        /\ runs[r].ocrTotal = 4
        /\ runs[r].i = 1

(***************************************************************************)
(* Properties of the locator (checked under SpecLocate).                   *)
(***************************************************************************)
\* a line right-padded with '<' to 44 characters and cut to 44
padCut(l) == SubSeq(l \o Rep("<", 44), 1, 44)

\* the adjacent pairs the claim calls qualifying
claimedPairs(lines) ==
    {i \in 1..(Len(lines) - 1) :
        /\ Len(lines[i]) >= 40
        /\ Len(lines[i + 1]) >= 40
        /\ lines[i][1] = "P"
        /\ Cardinality({k \in 1..44 : padCut(lines[i + 1])[k] \in Digits}) > 5}

\* C9: when the normalised lines hold qualifying adjacent pairs, extractMRZ returns
\* the topmost one, each line padded with '<' and cut to 44 characters.
C9_TopmostPair ==
    locPc = "done" =>
        LET lines == normalizedLines(transcript)
            q == claimedPairs(lines)
        IN  q # {} =>
                \E i \in q :
                    /\ \A j \in q : i <= j
                    /\ located = <<padCut(lines[i]), padCut(lines[i + 1])>>

\* C9 witness: two qualifying pairs with different contents, the first returned.
C9_Witness ==
    /\ locPc = "done"
    /\ LET lines == normalizedLines(transcript)
           q == claimedPairs(lines)
       IN  /\ Cardinality(q) >= 2
           /\ \E i \in q, j \in q :
                 /\ i < j
                 /\ lines[i] # lines[j]
                 /\ located = <<padCut(lines[i]), padCut(lines[i + 1])>>

\* C10: every returned pair has two lines of length 44 over the alphabet A-Z, 0-9, '<',
\* the first starting with 'P'.
C10_PairInvariant ==
    locPc = "done" /\ located # <<>> =>
        /\ Len(located) = 2
        /\ Len(located[1]) = 44
        /\ Len(located[2]) = 44
        /\ located[1][1] = "P"
        /\ \A l \in 1..2 : \A k \in 1..Len(located[l]) : located[l][k] \in MrzAlphabet

(***************************************************************************)
(* Corrector harness: cleanMRZLine1 applied to bounded first lines, and    *)
(* applied again to what it returned.                                      *)
(***************************************************************************)
\* how many times in a row the harness applies cleanMRZLine1
MaxApply == 2

\* the component before any user action
AppIdle ==
    /\ selectedFile = <<>>
    /\ previewUrl = <<>>
    /\ isProcessing = FALSE
    /\ progressMsg = <<>>
    /\ passportData = <<>>
    /\ error = <<>>
    /\ readers = [f \in Files |-> 0]
    /\ runs = [r \in RunIds |-> IdleRun]

\* type + issuing country
LinePrefixes == { <<"P", "<", "U", "T", "O">>, <<"P", "C", "C", "C", "E">> }

\* how a name section starts
NameHeads ==
    { <<"M", "C", "C", "A", "R", "T", "H", "Y">>,                          \* a lone name holding CC
      <<"S", "M", "I", "T", "H", "C", "C", "J", "O", "H", "N">>,           \* separator misread as CC
      <<"S", "M", "I", "T", "H", "C", "C", "J", "O", "C", "C", "O">>,      \* ... and a second CC
      <<"S", "M", "I", "T", "H", "<", "<", "J", "O", "H", "N">>,           \* separator read correctly
      <<"S", "M", "I", "T", "H", "<", "J", "O", "H", "N">>,                \* single fillers only
      <<"A", "B", "1", "<", "<", "C", "D">>,                               \* '<<' after a digit
      <<"<", "<", "S", "M", "I", "T", "H">>,                               \* starts with '<<'
      <<>> }

TailKinds == 1..6
\* how a name section of n more characters ends
nameTail(kind, n) ==
    CASE kind = 1 -> Rep("<", n)                                           \* filler read correctly
      [] kind = 2 -> Rep("<", n - 4) \o <<"C", "C", "C", "E">>             \* last four misread
      [] kind = 3 -> Rep("<", n - 2) \o <<"C", "C">>                       \* a run of two only
      [] kind = 4 -> Rep("C", n)                                           \* all filler misread
      [] kind = 5 -> Rep("<", n - 3) \o <<"Z", "<", "<">>                  \* a letter, then '<<'
      [] kind = 6 -> Rep("<", n - 4) \o <<"L", "A", "E", "<">>             \* a run before the end

LineLengths == {MrzLen - 1, MrzLen, MrzLen + 1}

CorrectorLines ==
    { p \o h \o nameTail(k, n - Len(p) - Len(h)) :
        p \in LinePrefixes, h \in NameHeads, k \in TailKinds, n \in LineLengths }

CorrectInit ==
    /\ AppIdle
    /\ LocIdle
    /\ arg \in CorrectorLines
    /\ result = <<>>
    /\ callPc = "correct"

\* one call of cleanMRZLine1: on the line first, then on what the last call returned
Correct ==
    /\ callPc = "correct"
    /\ Len(result) < MaxApply
    /\ result' = Append(result, cleanMRZLine1(IF result = <<>> THEN arg ELSE result[Len(result)]))
    /\ UNCHANGED <<arg, callPc>>

CorrectNext == Correct /\ UNCHANGED <<uiVars, runs, transcript, located, locPc>>

SpecCorrect == CorrectInit /\ [][CorrectNext]_vars

(***************************************************************************)
(* Decoder harness: parseMRZ applied to bounded pairs of 44-character      *)
(* lines, with the clock at a year of DecodeYears.                         *)
(***************************************************************************)
\* s with the characters from offset a on replaced by those of t
withField(s, a, t) ==
    [k \in 1..Len(s) |-> IF k > a /\ k <= a + Len(t) THEN t[k - a] ELSE s[k]]

\* a line 1 made of the prefix P<UTO, a name section start and filler
line1Of(head) == <<"P", "<", "U", "T", "O">> \o head \o Rep("<", MrzLen - 5 - Len(head))

DecodeLines1 ==
    { SampleLine1,
      line1Of(<<"S", "M", "I", "T", "H", "<", "<", "J", "O", "H", "N", "<", "<", "P", "A", "U", "L">>),
      line1Of(<<"S", "M", "I", "T", "H", "<", "<", "J", "O", "H", "N", "<", "P", "A", "U", "L">>),
      line1Of(<<"M", "C", "C", "A", "R", "T", "H", "Y">>),
      line1Of(<<"S", "M", "I", "T", "H", "C", "C", "J", "O", "H", "N">>),
      line1Of(<<>>) }

\* the six characters of a date field
DateFields ==
    { <<"7", "4", "0", "8", "1", "2">>,
      <<"1", "2", "0", "4", "1", "5">>,
      <<"A", "B", "C", "D", "E", "F">>,        \* no digit at all
      <<"7", "4", "<", "8", "1", "2">>,        \* holds a filler
      <<"7", "A", "0", "8", "1", "2">>,        \* a one-digit year
      <<"O", "8", "I", "2", "S", "Z">> }       \* letters that look like digits

SexFields == {"F", "M", "<", "X", "1"}

DecodeLines2 ==
    { withField(withField(withField(SampleLine2, 13, dob), 20, <<sx>>), 21, ex) :
        dob \in DateFields, sx \in SexFields, ex \in DateFields }

\* values of new Date().getFullYear()
DecodeYears == {2022, 2026, 2063, 2064}

DecodeInit ==
    /\ AppIdle
    /\ LocIdle
    /\ arg \in [lines : DecodeLines1 \X DecodeLines2, nowYear : DecodeYears]
    /\ result = <<>>
    /\ callPc = "decode"

\* one call parseMRZ(lines)
Decode ==
    /\ callPc = "decode"
    /\ result = <<>>
    /\ result' = <<parseMRZ(arg.lines, arg.nowYear)>>
    /\ UNCHANGED <<arg, callPc>>

DecodeNext == Decode /\ UNCHANGED <<uiVars, runs, transcript, located, locPc>>

SpecDecode == DecodeInit /\ [][DecodeNext]_vars

(***************************************************************************)
(* Date harness: formatMRZDate applied to every two-digit year.            *)
(***************************************************************************)
TwoDigitYears == 0..99

\* the date field of year y, 12 August
dateFieldOf(y) == <<DigitSeq[(y \div 10) + 1], DigitSeq[(y % 10) + 1], "0", "8", "1", "2">>

\* values of new Date().getFullYear(), around the ends of a century too
DateYears == {1999, 2000, 2022, 2026, 2063, 2064, 2089, 2090, 2099, 2100}

DateInit ==
    /\ AppIdle
    /\ LocIdle
    /\ arg \in [yy : TwoDigitYears, nowYear : DateYears]
    /\ result = <<>>
    /\ callPc = "date"

\* one call formatMRZDate(yymmdd)
FormatDate ==
    /\ callPc = "date"
    /\ result = <<>>
    /\ result' = <<formatMRZDate(dateFieldOf(arg.yy), arg.nowYear)>>
    /\ UNCHANGED <<arg, callPc>>

DateNext == FormatDate /\ UNCHANGED <<uiVars, runs, transcript, located, locPc>>

SpecDate == DateInit /\ [][DateNext]_vars

(***************************************************************************)
(* Binarisation threshold: otsuThreshold.  A variance is a JavaScript      *)
(* number; it is kept here as the exact fraction num / den, and two        *)
(* variances are compared by cross-multiplication.                         *)
(***************************************************************************)
\* the gray levels 0..255 a histogram counts
Levels == 256
\* the threshold returned when no level improves on variance 0
InitialBest == 128

\* histogram[v]++ for every v of values
histogramOf(values) ==
    [v \in 0..(Levels - 1) |-> Cardinality({k \in 1..Len(values) : values[k] = v})]

\* sumAll += i * histogram[i], for the levels lo..hi (halved, to keep the evaluation shallow)
RECURSIVE sumLevels(_, _, _)
sumLevels(histogram, lo, hi) ==
    IF lo = hi THEN lo * histogram[lo]
    ELSE LET mid == (lo + hi) \div 2
         IN  sumLevels(histogram, lo, mid) + sumLevels(histogram, mid + 1, hi)

\* one iteration of the loop over t; acc holds sumBg, weightBg, maxVariance, best
\* and whether the loop has been left by break
otsuStep(histogram, total, sumAll, t, acc) ==
    IF acc.left THEN acc
    ELSE LET weightBg == acc.weightBg + histogram[t]
         IN  IF weightBg = 0 THEN acc
             ELSE LET weightFg == total - weightBg
                  IN  IF weightFg = 0 THEN [acc EXCEPT !.left = TRUE]
                      ELSE LET sumBg == acc.sumBg + t * histogram[t]
                               \* meanBg - meanFg = diff / (weightBg * weightFg)
                               diff  == sumBg * weightFg - (sumAll - sumBg) * weightBg
                               num   == diff * diff
                               den   == weightBg * weightFg
                               more  == num * acc.maxDen > acc.maxNum * den
                           IN  [sumBg    |-> sumBg,
                                weightBg |-> weightBg,
                                maxNum   |-> IF more THEN num ELSE acc.maxNum,
                                maxDen   |-> IF more THEN den ELSE acc.maxDen,
                                best     |-> IF more THEN t ELSE acc.best,
                                left     |-> FALSE]

\* the iterations for t = lo..hi in ascending order (halved, to keep the evaluation shallow)
RECURSIVE otsuScan(_, _, _, _, _, _)
otsuScan(histogram, total, sumAll, lo, hi, acc) ==
    IF lo = hi THEN otsuStep(histogram, total, sumAll, lo, acc)
    ELSE LET mid == (lo + hi) \div 2
             low == otsuScan(histogram, total, sumAll, lo, mid, acc)
         IN  IF low.left THEN low
             ELSE otsuScan(histogram, total, sumAll, mid + 1, hi, low)

otsuThreshold(values) ==
    LET histogram == histogramOf(values)
        sumAll == sumLevels(histogram, 0, Levels - 1)
    IN  otsuScan(histogram, Len(values), sumAll, 0, Levels - 1,
                 [sumBg |-> 0, weightBg |-> 0, maxNum |-> 0, maxDen |-> 1,
                  best |-> InitialBest, left |-> FALSE]).best

(***************************************************************************)
(* Threshold harness: otsuThreshold called on bounded pixel arrays.        *)
(***************************************************************************)
\* pixels of one gray level in an array
MaxCount == 2
\* calls of otsuThreshold on the same array
MaxCalls == 2

GrayLevels == {0, 1, 100, 128, 200, 253}

\* arrays of one level, of two levels, and of two clusters two levels wide
GrayArrays ==
    { Rep(a, n) : a \in GrayLevels, n \in 1..MaxCount }
    \cup { Rep(ab[1], n) \o Rep(ab[2], m) :
               ab \in {xy \in GrayLevels \X GrayLevels : xy[1] # xy[2]},
               n \in 1..MaxCount, m \in 1..MaxCount }
    \cup { <<ab[1], ab[1] + 2, ab[2], ab[2] + 2>> :
               ab \in {xy \in GrayLevels \X GrayLevels : xy[2] > xy[1] + 2} }

OtsuInit ==
    /\ AppIdle
    /\ LocIdle
    /\ arg \in GrayArrays
    /\ result = <<>>
    /\ callPc = "otsu"

\* one call otsuThreshold(grayValues)
Threshold ==
    /\ callPc = "otsu"
    /\ Len(result) < MaxCalls
    /\ result' = Append(result, otsuThreshold(arg))
    /\ UNCHANGED <<arg, callPc>>

OtsuNext == Threshold /\ UNCHANGED <<uiVars, runs, transcript, located, locPc>>

SpecOtsu == OtsuInit /\ [][OtsuNext]_vars

(***************************************************************************)
(* Binarisation harness: the black/white step of preprocessImageForMRZ     *)
(* applied to bounded arrays of gray values.                               *)
(***************************************************************************)
\* the values a binarised pixel takes
Black == 0
White == 255

\* grayValues[i / 4] < threshold
isBelow(gray, threshold) == gray < threshold

\* bw of every pixel: grayValues[i / 4] < threshold ? 0 : 255
binarize(grayValues) ==
    LET threshold == otsuThreshold(grayValues)
    IN  [k \in 1..Len(grayValues) |-> IF isBelow(grayValues[k], threshold) THEN Black ELSE White]

BinarizeInit ==
    /\ AppIdle
    /\ LocIdle
    /\ arg \in GrayArrays
    /\ result = <<>>
    /\ callPc = "binarize"

\* the binarisation of one image
Binarize ==
    /\ callPc = "binarize"
    /\ result = <<>>
    /\ result' = <<binarize(arg)>>
    /\ UNCHANGED <<arg, callPc>>

BinarizeNext == Binarize /\ UNCHANGED <<uiVars, runs, transcript, located, locPc>>

SpecBinarize == BinarizeInit /\ [][BinarizeNext]_vars

(***************************************************************************)
(* Properties of cleanMRZLine1 (checked under SpecCorrect).                *)
(***************************************************************************)
\* the characters of a line after its first five
nameSectionOf(line) == SubSeq(line, 6, Len(line))

\* s holds two adjacent filler characters somewhere
holdsSeparator(s) == \E k \in 1..(Len(s) - 1) : s[k] = "<" /\ s[k + 1] = "<"

\* s ends in exactly n characters of {C, E, L, A}
endsInLookalikes(s, n) ==
    /\ n <= Len(s)
    /\ \A k \in (Len(s) - n + 1)..Len(s) : s[k] \in {"C", "E", "L", "A"}
    /\ (n < Len(s) => s[Len(s) - n] \notin {"C", "E", "L", "A"})

\* the last n characters of s are all filler
endsInFiller(s, n) == n <= Len(s) /\ \A k \in (Len(s) - n + 1)..Len(s) : s[k] = "<"

\* C11: cleanMRZLine1 is idempotent: applied to its own output it returns
\* that output unchanged.
C11_Idempotent ==
    (callPc = "correct" /\ Len(result) >= 2) => result[2] = result[1]

\* a line was corrected, and the second application left the correction alone
C11_Witness ==
    /\ callPc = "correct"
    /\ Len(result) >= 2
    /\ result[1] # arg
    /\ result[2] = result[1]

\* C12: cleanMRZLine1 returns its input unchanged whenever the name section
\* (after the 5-character prefix) already contains '<<' anywhere.
C12_NoOpWhenSeparatorPresent ==
    (callPc = "correct" /\ Len(result) >= 1 /\ holdsSeparator(nameSectionOf(arg)))
        => result[1] = arg

\* C13: cleanMRZLine1 returns a string of the input's length with the input's
\* first five characters; a character that differs lies in the name section
\* and has become '<'.
C13_SameLengthSamePrefix ==
    (callPc = "correct" /\ Len(result) >= 1) =>
        /\ Len(result[1]) = Len(arg)
        /\ \A k \in 1..Len(arg) :
              result[1][k] # arg[k] => (k > 5 /\ result[1][k] = "<")

\* a line whose trailing run and misread separator were both rewritten
C13_Witness ==
    /\ callPc = "correct"
    /\ Len(result) >= 1
    /\ Cardinality({k \in 1..Len(arg) : result[1][k] # arg[k]}) >= 5

\* C14 (as stated): for every 44-character line whose name section ends in a
\* run of 3 or more characters of {C, E, L, A}, that run is rewritten to the
\* same number of '<'.
C14_TrailingRunAlwaysRewritten ==
    (callPc = "correct" /\ Len(result) >= 1 /\ Len(arg) = 44) =>
        \A n \in 3..39 :
            endsInLookalikes(nameSectionOf(arg), n) =>
                (Len(result[1]) = 44 /\ endsInFiller(result[1], n))

\* a '<<' between two letters, or at the very start of the name section
separatorRead(s) ==
    \/ \E k \in 1..(Len(s) - 3) :
          s[k] \in Upper /\ s[k + 1] = "<" /\ s[k + 2] = "<" /\ s[k + 3] \in Upper
    \/ (Len(s) >= 2 /\ s[1] = "<" /\ s[2] = "<")

\* C14 (amended): for a 44-character line whose name section ends in a run of
\* 3 or more characters of {C, E, L, A}, that run is rewritten to the same
\* number of '<' when the name section has no '<<' between two letters and
\* does not start with '<<'; otherwise the line is returned unchanged.
C14_TrailingRunRewrittenUnlessSeparated ==
    (callPc = "correct" /\ Len(result) >= 1 /\ Len(arg) = 44) =>
        \A n \in 3..39 :
            endsInLookalikes(nameSectionOf(arg), n) =>
                IF separatorRead(nameSectionOf(arg))
                THEN result[1] = arg
                ELSE Len(result[1]) = 44 /\ endsInFiller(result[1], n)

\* a name section ending in CCCE came back ending in four fillers
C14_Witness ==
    /\ callPc = "correct"
    /\ Len(result) >= 1
    /\ Len(arg) = 44
    /\ endsInLookalikes(nameSectionOf(arg), 4)
    /\ SubSeq(arg, 41, 44) = <<"C", "C", "C", "E">>
    /\ endsInFiller(result[1], 4)

(***************************************************************************)
(* Properties of parseMRZ (checked under SpecDecode) and of formatMRZDate  *)
(* (checked under SpecDate).                                               *)
(***************************************************************************)
RecordFields ==
    {"passportNumber", "fullName", "surname", "givenNames", "nationality",
     "dateOfBirth", "sex", "dateOfExpiry", "mrzLine1", "mrzLine2"}

\* text as a sequence of characters
isText(v) == v \in Seq(MrzAlphabet \cup {" ", "-"})

decoded == callPc = "decode" /\ Len(result) = 1

\* C15: parseMRZ is total on two 44-character lines over the MRZ alphabet:
\* it returns a record with every field, and sex is Male, Female or Unspecified.
C15_TotalAndSexMapped ==
    decoded =>
        /\ DOMAIN result[1] = RecordFields
        /\ \A f \in RecordFields \ {"sex"} : isText(result[1][f])
        /\ result[1].sex \in {"Male", "Female", "Unspecified"}
        /\ (result[1].sex = "Male" <=> arg.lines[2][21] = "M")
        /\ (result[1].sex = "Female" <=> arg.lines[2][21] = "F")

\* a line 2 whose sex character is the filler decoded to Unspecified
C15_Witness ==
    /\ decoded
    /\ arg.lines[2][21] = "<"
    /\ result[1].sex = "Unspecified"

\* what the ICAO specimen decodes to
specimenDecoded ==
    /\ result[1].passportNumber = <<"L", "8", "9", "8", "9", "0", "2", "C", "3">>
    /\ result[1].surname = <<"E", "R", "I", "K", "S", "S", "O", "N">>
    /\ result[1].givenNames = <<"A", "N", "N", "A", " ", "M", "A", "R", "I", "A">>
    /\ result[1].nationality = <<"U", "T", "O">>
    /\ result[1].dateOfBirth = <<"1", "9", "7", "4", "-", "0", "8", "-", "1", "2">>
    /\ result[1].sex = "Female"
    /\ result[1].dateOfExpiry = <<"2", "0", "1", "2", "-", "0", "4", "-", "1", "5">>

\* C16 (as stated): for every current year >= 2022 the ICAO specimen decodes
\* to L898902C3, ERIKSSON, ANNA MARIA, UTO, 1974-08-12, Female, 2012-04-15.
C16_SpecimenFrom2022 ==
    (decoded /\ arg.lines = <<SampleLine1, SampleLine2>> /\ arg.nowYear >= 2022)
        => specimenDecoded

\* C16 (amended): the same for every current year from 2022 to 2063.
C16_SpecimenFrom2022To2063 ==
    (decoded /\ arg.lines = <<SampleLine1, SampleLine2>>
             /\ arg.nowYear >= 2022 /\ arg.nowYear <= 2063)
        => specimenDecoded

\* the specimen decoded in the last year of that range
C16_Witness ==
    /\ decoded
    /\ arg.lines = <<SampleLine1, SampleLine2>>
    /\ arg.nowYear = 2063
    /\ specimenDecoded

\* the four digits of a year
fourDigits(n) ==
    <<DigitSeq[(n \div 1000) + 1], DigitSeq[((n \div 100) % 10) + 1],
      DigitSeq[((n \div 10) % 10) + 1], DigitSeq[(n % 10) + 1]>>

\* C17: with cy = currentYear mod 100, a two-digit year y <= cy + 10 becomes
\* 2000 + y and a two-digit year y >= cy + 11 becomes 1900 + y.
C17_DatePivot ==
    (callPc = "date" /\ Len(result) = 1) =>
        LET cy == arg.nowYear % 100
            full == IF arg.yy <= cy + 10 THEN 2000 + arg.yy ELSE 1900 + arg.yy
        IN  result[1] = fourDigits(full) \o <<"-", "0", "8", "-", "1", "2">>

\* both sides of the pivot: year cy + 10 went to the 2000s ...
C17_Witness ==
    /\ callPc = "date"
    /\ Len(result) = 1
    /\ arg.yy = (arg.nowYear % 100) + 10
    /\ SubSeq(result[1], 1, 2) = <<"2", "0">>

\* a date of the form YYYY-MM-DD, or the empty string
isoOrEmpty(d) ==
    \/ d = <<>>
    \/ /\ Len(d) = 10
       /\ \A k \in 1..4 : d[k] \in Digits
       /\ d[5] = "-"
       /\ d[8] = "-"

\* C18: dateOfBirth and dateOfExpiry are each the empty string or of the form
\* YYYY-MM-DD; an unparseable field becomes the empty string and nothing else.
C18_DatesIsoOrEmpty ==
    decoded => (isoOrEmpty(result[1].dateOfBirth) /\ isoOrEmpty(result[1].dateOfExpiry))

\* the offset of the first '<<' of s, or Len(s) when there is none
firstSeparator(s) ==
    LET m == {k \in 0..(Len(s) - 2) : s[k + 1] = "<" /\ s[k + 2] = "<"}
    IN  IF m = {} THEN Len(s) ELSE CHOOSE k \in m : \A h \in m : k <= h

\* C19: the name section is split once, at its first '<<': surname is what
\* precedes it and givenNames everything that follows it, each with '<'
\* turned into a space and trimmed.
C19_SplitOnceAtFirstSeparator ==
    decoded =>
        LET ns == SubSeq(result[1].mrzLine1, 6, 44)
            k  == firstSeparator(ns)
        IN  /\ result[1].surname = namePart(SubSeq(ns, 1, k))
            /\ result[1].givenNames = namePart(SubSeq(ns, k + 3, Len(ns)))

(***************************************************************************)
(* Properties of otsuThreshold (checked under SpecOtsu).                   *)
(***************************************************************************)
levelsOf(values) == {values[k] : k \in 1..Len(values)}

\* C20: for an array of two distinct gray levels a < b the threshold lies
\* strictly between them (a < t < b), and every call on the same array
\* returns the same threshold.
C20_ThresholdStrictlyBetween ==
    (callPc = "otsu" /\ Len(result) >= 1) =>
        /\ \A k \in 1..Len(result) : result[k] = result[1]
        /\ \A a \in levelsOf(arg), b \in levelsOf(arg) :
              (a < b /\ levelsOf(arg) = {a, b}) => (a < result[1] /\ result[1] < b)

(***************************************************************************)
(* Step 2 of cleanMRZLine1 (checked under SpecCorrect).                    *)
(***************************************************************************)
\* the name section as step 1 leaves it: a trailing run of 3 or more
\* characters of {C, E, L, A} turned into filler
afterStep1(s) ==
    LET runs3 == {n \in 3..Len(s) : endsInLookalikes(s, n)}
    IN  IF runs3 = {} THEN s
        ELSE LET n == CHOOSE m \in runs3 : TRUE
             IN  SubSeq(s, 1, Len(s) - n) \o [k \in 1..n |-> "<"]

\* C21: step 2 is applied only when the name section holds no '<<' at all
\* after step 1: when step 1 produced or left a '<<', no 'CC' is replaced
\* (the result is the line as step 1 left it, or the line itself).
C21_NoSeparatorRestoredWhenOnePresent ==
    (callPc = "correct" /\ Len(result) >= 1 /\ Len(arg) >= 44
        /\ holdsSeparator(afterStep1(nameSectionOf(arg))))
        => \/ result[1] = arg
           \/ result[1] = SubSeq(arg, 1, 5) \o afterStep1(nameSectionOf(arg))

(***************************************************************************)
(* The digit count of the located second line (checked under SpecLocate).  *)
(***************************************************************************)
digitsIn(l) == Cardinality({k \in 1..Len(l) : l[k] \in Digits})

\* C22 (as stated): every pair extractMRZ returns, from Pass A or from the
\* continuous fallback Pass B, has more than 5 digits in its second line.
C22_EveryPairHasDigits ==
    (locPc = "done" /\ located # <<>>) => digitsIn(located[2]) > 5

\* adjacent lines that pass every test of Pass A but the digit count
digitPoorPairs(lines) ==
    {i \in 1..(Len(lines) - 1) :
        /\ Len(lines[i]) >= 40
        /\ Len(lines[i + 1]) >= 40
        /\ lines[i][1] = "P"
        /\ digitsIn(padCut(lines[i + 1])) <= 5}

\* C22 (amended): when some adjacent pair passes the tests of Pass A, the
\* returned pair has more than 5 digits in its second line; a pair returned
\* when none does comes from Pass B, which counts no digits: it is 88
\* consecutive characters of the concatenated lines.
C22_PassAPairHasDigits ==
    locPc = "done" =>
        LET lines == normalizedLines(transcript)
            all   == join(lines)
        IN  /\ claimedPairs(lines) # {} => (located # <<>> /\ digitsIn(located[2]) > 5)
            /\ (claimedPairs(lines) = {} /\ located # <<>>) =>
                  \E k \in 1..(Len(all) - 87) : located[1] \o located[2] = SubSeq(all, k, k + 87)

\* a 'P' line above a digit-poor line was passed over, and the pair returned
\* lies below it
C22_Witness ==
    /\ locPc = "done"
    /\ located # <<>>
    /\ digitsIn(located[2]) > 5
    /\ LET lines == normalizedLines(transcript)
       IN  \E i \in digitPoorPairs(lines), j \in claimedPairs(lines) : i < j

(***************************************************************************)
(* Properties of the binarisation (checked under SpecBinarize).            *)
(***************************************************************************)
\* C23: with t = otsuThreshold(grays), a pixel with gray <= t becomes black
\* and a pixel with gray > t becomes white; an image of exactly two gray
\* levels is binarised to an image with both black and white pixels.
C23_BinarizationAgreesWithSplit ==
    (callPc = "binarize" /\ Len(result) = 1) =>
        LET t == otsuThreshold(arg)
            bw == result[1]
        IN  /\ Len(bw) = Len(arg)
            /\ \A k \in 1..Len(arg) : bw[k] = (IF arg[k] <= t THEN 0 ELSE 255)
            /\ Cardinality(levelsOf(arg)) = 2 => levelsOf(bw) = {0, 255}

(***************************************************************************)
(* The preview and the selected file (checked under Spec).                 *)
(***************************************************************************)
\* C24: whenever previewUrl is non-null it is the data URL of the currently
\* selected file, so selectedFile is non-null then; and a run on an image
\* file OCRs the content of the file it took as selectedFile.
C24_PreviewIsSelectedFile ==
    /\ previewUrl # <<>> =>
          (selectedFile # <<>> /\ previewUrl = <<dataUrl(selectedFile[1])>>)
    /\ \A r \in RunIds :
          (active(runs[r]) /\ fileType(runs[r].file[1]) # "application/pdf"
              /\ runs[r].pc # "convertPdf")
              => runs[r].imageSrcs = <<dataUrl(runs[r].file[1])>>

(***************************************************************************)
(* The end of an extraction run (checked under SpecLive: the awaited       *)
(* calls of a run settle, by resolving or by rejecting).                   *)
(***************************************************************************)
\* some awaited call of run r settles
Settle(r) ==
    \/ \E n \in 0..MaxPages : ConvertPdfOk(r, n)
    \/ \E msg \in ExternalMessages : ConvertPdfFail(r, msg)
    \/ CreateWorkerOk(r)
    \/ \E msg \in ExternalMessages : CreateWorkerFail(r, msg)
    \/ SetParametersOk(r)
    \/ \E msg \in ExternalMessages : SetParametersFail(r, msg)
    \/ PreprocessOk(r)
    \/ PreprocessFail(r)
    \/ \E text \in OcrTexts : RecognizeOk(r, text)
    \/ \E msg \in ExternalMessages : RecognizeFail(r, msg)
    \/ TerminateDone(r)

SpecLive == Spec /\ \A r \in RunIds : WF_vars(Settle(r))

\* a started run ends
RunEnds == isProcessing ~> ~isProcessing

\* C25: a run that set isProcessing eventually ends with isProcessing false
\* and progressMsg empty, and at that point exactly one of passportData and
\* error is non-null.
C25_RunEndsWithRecordOrError ==
    /\ isProcessing ~> (~isProcessing /\ progressMsg = <<>>)
    /\ [][(isProcessing /\ ~isProcessing') =>
            /\ progressMsg' = <<>>
            /\ (passportData' # <<>>) # (error' # <<>>)]_vars

=============================================================================
